---- MODULE Spec2Model ----
(***************************************************************************)
(* Wheel of Life tracker: the encrypted-data synchronisation core.         *)
(*                                                                         *)
(*   CryptoModule  (src/js/crypto.js)      the sealed-envelope codec       *)
(*   GitHubModule  (src/js/crypto.js)      the versioned store client      *)
(*   App           (src/unnamed/part_003)  the session and its handlers    *)
(*   WheelChart    (src/unnamed/part_001)  the figures of the charts       *)
(*                                                                         *)
(* Several specifications share the module.  SpecCodec exercises the pure  *)
(* codec (encrypt, decrypt and the encodings under them) on inputs drawn   *)
(* from bounded sets; SpecScore and SpecEntries do the same for the        *)
(* figures.  Spec runs two browser sessions against the single remote      *)
(* slot, SpecSolo one session alone, and SpecRival one session beside      *)
(* another writer on the slot.                                             *)
(*                                                                         *)
(* Platform primitives the code calls but does not implement are           *)
(* idealised: a byte is an element of 0..Q-1, PBKDF2 and AES-GCM are a     *)
(* keyed stream cipher with a 16-byte tag over that field, and the JSON    *)
(* text of a document is one byte per JSON scalar.                         *)
(***************************************************************************)
EXTENDS Integers, Sequences, FiniteSets, TLC

(***************************************************************************)
(* Absent values.  A JavaScript value that may be null is a sequence of    *)
(* length at most one: <<>> is null, <<v>> is v.                           *)
(***************************************************************************)
Null == <<>>

Some(v) == <<v>>

IsNull(o) == o = <<>>

Val(o) == o[1]

Min(a, b) == IF a < b THEN a ELSE b

(***************************************************************************)
(* Bytes.  All byte arithmetic of the idealised primitives is modulo the   *)
(* prime Q, so every byte of the model is in 0..Q-1.                       *)
(***************************************************************************)
Q == 251

\* combined.slice(from, to): the bytes at offsets from..to-1 that exist.
Slice(s, from, to) ==
    IF from >= Min(to, Len(s)) THEN <<>> ELSE SubSeq(s, from + 1, Min(to, Len(s)))

\* A position-weighted digest of a byte sequence: any change of one byte changes it.
RECURSIVE Digest(_, _)
Digest(s, i) == IF i = 0 THEN 0 ELSE (i * s[i] + Digest(s, i - 1)) % Q

(***************************************************************************)
(* Documents (App.createEmptyData, App.handleEntrySubmit).                 *)
(***************************************************************************)
RatingKeys ==
    <<"body", "mind", "soul", "friends", "romance", "family", "mission", "money", "growth">>

\* parseInt of a value that is not a number.
NaN == 255

\* The JSON text null.
JsonNull == 250

Ratings(b, m, s, f, r, fa, mi, mo, g) ==
    [body |-> b, mind |-> m, soul |-> s, friends |-> f, romance |-> r,
     family |-> fa, mission |-> mi, money |-> mo, growth |-> g]

Uniform(v) == Ratings(v, v, v, v, v, v, v, v, v)

createEmptyData == [entries |-> <<>>, version |-> "1.0"]

(***************************************************************************)
(* JSON.stringify and JSON.parse of a document, followed by TextEncoder /  *)
(* TextDecoder.  The text is <<n>> \o (id, timestamp, nine ratings, notes) *)
(* per entry \o <<version>>.  A number that is NaN is written as null.     *)
(***************************************************************************)
JsonNumber(v) == IF v = NaN THEN JsonNull ELSE v

EntryWidth == 12

EntryText(e) ==
    <<e.id, e.timestamp>> \o [i \in 1..9 |-> JsonNumber(e.ratings[RatingKeys[i]])] \o <<e.notes>>

RECURSIVE EntriesText(_)
EntriesText(es) == IF es = <<>> THEN <<>> ELSE EntryText(Head(es)) \o EntriesText(Tail(es))

VersionText(v) == IF v = "1.0" THEN 1 ELSE 0

VersionOfText(c) == IF c = 1 THEN "1.0" ELSE "other"

JsonStringify(data) == <<Len(data.entries)>> \o EntriesText(data.entries) \o <<VersionText(data.version)>>

EntryOfText(t) ==
    [id |-> t[1], timestamp |-> t[2],
     ratings |-> Ratings(t[3], t[4], t[5], t[6], t[7], t[8], t[9], t[10], t[11]),
     notes |-> t[12]]

\* [ok |-> TRUE, value |-> document], or a SyntaxError.
JsonParse(text) ==
    IF Len(text) < 2 \/ Len(text) # EntryWidth * text[1] + 2
    THEN [ok |-> FALSE, value |-> createEmptyData]
    ELSE [ok |-> TRUE,
          value |-> [entries |-> [k \in 1..text[1] |->
                                    EntryOfText(SubSeq(text, 2 + EntryWidth * (k - 1),
                                                       1 + EntryWidth * k))],
                     version |-> VersionOfText(text[Len(text)])]]

(***************************************************************************)
(* Base64 (btoa / atob).  A character of base64 text is its index in the   *)
(* alphabet, 0..63; Pad is '=', Newline is a line break, and any other     *)
(* value is a character outside the alphabet.                              *)
(***************************************************************************)
Pad == 64

Newline == 65

BadChar == 66

RECURSIVE btoa(_)
btoa(bytes) ==
    IF bytes = <<>> THEN <<>>
    ELSE IF Len(bytes) = 1 THEN
        <<bytes[1] \div 4, (bytes[1] % 4) * 16, Pad, Pad>>
    ELSE IF Len(bytes) = 2 THEN
        <<bytes[1] \div 4, (bytes[1] % 4) * 16 + bytes[2] \div 16, (bytes[2] % 16) * 4, Pad>>
    ELSE
        <<bytes[1] \div 4, (bytes[1] % 4) * 16 + bytes[2] \div 16,
          (bytes[2] % 16) * 4 + bytes[3] \div 64, bytes[3] % 64>>
        \o btoa(SubSeq(bytes, 4, Len(bytes)))

\* The trailing padding atob removes: one or two '=' of a text whose length is a multiple of 4.
StripPad(text) ==
    IF Len(text) % 4 # 0 \/ text = <<>> THEN text
    ELSE IF text[Len(text)] # Pad THEN text
    ELSE IF text[Len(text) - 1] = Pad THEN SubSeq(text, 1, Len(text) - 2)
    ELSE SubSeq(text, 1, Len(text) - 1)

RECURSIVE DecodeGroups(_)
DecodeGroups(t) ==
    IF Len(t) < 2 THEN <<>>
    ELSE IF Len(t) = 2 THEN <<t[1] * 4 + t[2] \div 16>>
    ELSE IF Len(t) = 3 THEN <<t[1] * 4 + t[2] \div 16, (t[2] % 16) * 16 + t[3] \div 4>>
    ELSE <<t[1] * 4 + t[2] \div 16, (t[2] % 16) * 16 + t[3] \div 4, (t[3] % 4) * 64 + t[4]>>
         \o DecodeGroups(SubSeq(t, 5, Len(t)))

\* [ok |-> TRUE, bytes |-> ...], or an InvalidCharacterError.
atob(text) ==
    LET t == StripPad(text)
    IN IF Len(t) % 4 = 1 \/ \E i \in 1..Len(t) : t[i] > 63
       THEN [ok |-> FALSE, bytes |-> <<>>]
       ELSE [ok |-> TRUE, bytes |-> DecodeGroups(t)]

arrayBufferToBase64(buffer) == btoa(buffer)

base64ToArrayBuffer(base64) == atob(base64)

(***************************************************************************)
(* Web Crypto, idealised.  A key is the pair of digests of the password    *)
(* bytes and of the salt; AES-GCM adds a keystream to the plaintext and    *)
(* appends a 16-byte tag in which every byte depends on the key, the iv    *)
(* and the ciphertext.                                                     *)
(***************************************************************************)
PBKDF2_ITERATIONS == 100000

KEY_LENGTH == 256

SaltLength == 16

IvLength == 12

TagLength == 16

\* new TextEncoder().encode(password); a null password is encoded as the text "null".
PasswordBytes(password) == IF IsNull(password) THEN <<110, 117, 108, 108>> ELSE Val(password)

Pbkdf2(passwordBuffer, salt, iterations, length) ==
    [p |-> (Digest(passwordBuffer, Len(passwordBuffer)) + 7 * Len(passwordBuffer)
            + iterations + length) % Q,
     s |-> (Digest(salt, Len(salt)) + 3 * Len(salt)) % Q]

KeyStream(key, iv, i) == (3 * key.p + 5 * key.s + 7 * Digest(iv, Len(iv)) + 11 * i) % Q

GcmTag(key, iv, ct) ==
    [j \in 1..TagLength |->
        (key.p + j * key.s + j * j * ((Digest(iv, Len(iv)) + Len(iv)) % Q)
         + j * j * j * ((Digest(ct, Len(ct)) + Len(ct)) % Q)) % Q]

\* crypto.subtle.encrypt({name: 'AES-GCM', iv}, key, data): ciphertext || tag.
SubtleEncrypt(key, iv, data) ==
    LET ct == [i \in 1..Len(data) |-> (data[i] + KeyStream(key, iv, i)) % Q]
    IN ct \o GcmTag(key, iv, ct)

\* crypto.subtle.decrypt: the plaintext, or an OperationError when the data is
\* shorter than a tag, the iv is empty or the tag does not verify.
SubtleDecrypt(key, iv, data) ==
    IF Len(data) < TagLength \/ iv = <<>> THEN [ok |-> FALSE, bytes |-> <<>>]
    ELSE LET ct == SubSeq(data, 1, Len(data) - TagLength)
             tag == SubSeq(data, Len(data) - TagLength + 1, Len(data))
         IN IF tag # GcmTag(key, iv, ct) THEN [ok |-> FALSE, bytes |-> <<>>]
            ELSE [ok |-> TRUE,
                  bytes |-> [i \in 1..Len(ct) |-> (ct[i] + Q - KeyStream(key, iv, i)) % Q]]

(***************************************************************************)
(* CryptoModule.                                                           *)
(***************************************************************************)
\* Mutants of deriveKey: the password left out of the key material; only half the salt used.
deriveKeyWithoutPassword(password, salt) ==
    Pbkdf2(<<>>, salt, PBKDF2_ITERATIONS, KEY_LENGTH)

deriveKeyHalfSalt(password, salt) ==
    Pbkdf2(PasswordBytes(password), Slice(salt, 0, 8), PBKDF2_ITERATIONS, KEY_LENGTH)

deriveKey(password, salt) ==
    Pbkdf2(PasswordBytes(password), salt, PBKDF2_ITERATIONS, KEY_LENGTH)

\* Mutant of Combine: the iv is set at 0 and the salt after it.
CombineIvFirst(salt, iv, encryptedBuffer) == iv \o salt \o encryptedBuffer

\* The bytes encrypt combines: salt at 0, iv after it, the encrypted buffer after both.
Combine(salt, iv, encryptedBuffer) == salt \o iv \o encryptedBuffer

\* Mutant of encrypt: the document is encoded but not encrypted.
encryptNone(data, password, salt, iv) == arrayBufferToBase64(JsonStringify(data))

\* encrypt(data, password), with the salt and iv that getRandomValues drew.
encrypt(data, password, salt, iv) ==
    LET key == deriveKey(password, salt)
        dataBuffer == JsonStringify(data)
        encryptedBuffer == SubtleEncrypt(key, iv, dataBuffer)
    IN arrayBufferToBase64(Combine(salt, iv, encryptedBuffer))

\* The parts decrypt extracts from the combined bytes.
ExtractSalt(combined) == Slice(combined, 0, 16)

\* Mutant of ExtractIv: the iv read from offset 12.
ExtractIvMisplaced(combined) == Slice(combined, 12, 28)

ExtractIv(combined) == Slice(combined, 16, 28)

ExtractEncrypted(combined) == Slice(combined, 28, Len(combined))

DecryptionFailedMessage == "Decryption failed - incorrect password or corrupted data"

FailedToDecryptMessage == "Failed to decrypt data: "

\* Mutant of DecryptCatch: every error caught is wrapped with its own message.
DecryptCatchAlwaysWraps(error) ==
    [ok |-> FALSE, value |-> createEmptyData,
     message |-> FailedToDecryptMessage, detail |-> error.name]

\* The catch block of decrypt: the Error thrown for the error caught.
DecryptCatch(error) ==
    IF error.name = "OperationError" \/ error.mentionsDecrypt
    THEN [ok |-> FALSE, value |-> createEmptyData,
          message |-> DecryptionFailedMessage, detail |-> ""]
    ELSE [ok |-> FALSE, value |-> createEmptyData,
          message |-> FailedToDecryptMessage, detail |-> error.name]

\* decrypt(encryptedData, password): [ok |-> TRUE, value |-> document], or the Error thrown.
decrypt(encryptedData, password) ==
    LET decoded == base64ToArrayBuffer(encryptedData)
        combined == decoded.bytes
        salt == ExtractSalt(combined)
        iv == ExtractIv(combined)
        encrypted == ExtractEncrypted(combined)
        key == deriveKey(password, salt)
        decryptedBuffer == SubtleDecrypt(key, iv, encrypted)
        parsed == JsonParse(decryptedBuffer.bytes)
    IN IF ~decoded.ok
       THEN DecryptCatch([name |-> "InvalidCharacterError", mentionsDecrypt |-> FALSE])
       ELSE IF ~decryptedBuffer.ok
       THEN DecryptCatch([name |-> "OperationError", mentionsDecrypt |-> FALSE])
       ELSE IF ~parsed.ok
       THEN DecryptCatch([name |-> "SyntaxError", mentionsDecrypt |-> FALSE])
       ELSE [ok |-> TRUE, value |-> parsed.value, message |-> "", detail |-> ""]

\* Mutant of validatePassword: any password that is not empty passes.
validatePasswordNotEmpty(password) == ~IsNull(password) /\ Len(Val(password)) > 0

validatePassword(password) == ~IsNull(password) /\ Len(Val(password)) >= 8

(***************************************************************************)
(* The remote store: one slot holding a blob and its version token, read   *)
(* and written through the GitHub contents API that GitHubModule calls.    *)
(***************************************************************************)
ValidPAT == "pat-valid"

\* Whether the store accepts the bearer token of a request.
Authorized(token) == token = Some(ValidPAT)

LineLength == 60

\* The content member of a GET response: base64 broken into lines.
RECURSIVE WrapLines(_)
WrapLines(text) ==
    IF Len(text) <= LineLength THEN text \o <<Newline>>
    ELSE SubSeq(text, 1, LineLength) \o <<Newline>> \o WrapLines(SubSeq(text, LineLength + 1, Len(text)))

\* A response: its status, the text it gives for a failure (the message member of the
\* body, else the status text; "" when it gives neither), and the content and sha of a file.
NoResponse == [status |-> "none", reason |-> "", content |-> Null, sha |-> Null]

\* The texts the store may give for a request it refuses.
StoreReasons == {"", "refused"}

\* The responses the store may send for `response`: a refusal comes with any of its texts.
StoreAnswers(response) ==
    IF response.status \in {"401", "409", "422"}
    THEN {[response EXCEPT !.reason = r] : r \in StoreReasons}
    ELSE {response}

\* GET of the slot: 401 without a valid token, 404 while nothing is stored.
StoreGet(store, token) ==
    IF ~Authorized(token) THEN [NoResponse EXCEPT !.status = "401"]
    ELSE IF IsNull(store.content) THEN [NoResponse EXCEPT !.status = "404"]
    ELSE [status |-> "200", reason |-> "",
          content |-> Some(WrapLines(btoa(Val(store.content)))), sha |-> store.sha]

\* Whether a PUT that expects `sha` (Null: none given) applies to the slot.
StoreAccepts(store, sha) == sha = store.sha

\* The status of a refused PUT: no sha given for an existing file, or a sha that is
\* not the current one.
StoreRefusal(store, sha) == IF IsNull(sha) THEN "422" ELSE "409"

(***************************************************************************)
(* GitHubModule.                                                           *)
(***************************************************************************)
FailedToFetch == "Failed to fetch"

\* `GitHub API error: ${error.message || response.statusText}`
ApiErrorText(reason) ==
    CASE reason = "" -> "GitHub API error: "
      [] reason = "refused" -> "GitHub API error: refused"

\* Mutant of fetchEncryptedData: no check for 404, which then is an error like any other.
fetchEncryptedDataWithout404(response) ==
    IF response.status = "200"
    THEN [threw |-> FALSE, error |-> "",
          content |-> Some(atob(SelectSeq(Val(response.content), LAMBDA c : c # Newline)).bytes),
          sha |-> response.sha]
    ELSE [threw |-> TRUE, error |-> ApiErrorText(response.reason), content |-> Null, sha |-> Null]

\* fetchEncryptedData(pat), from the response to its GET on: {content, sha}, or the
\* error thrown (a rejected fetch, or a status that is neither ok nor 404).
fetchEncryptedData(response) ==
    IF response.status = "network"
    THEN [threw |-> TRUE, error |-> FailedToFetch, content |-> Null, sha |-> Null]
    ELSE IF response.status = "404"
    THEN [threw |-> FALSE, error |-> "", content |-> Null, sha |-> Null]
    ELSE IF response.status # "200"
    THEN [threw |-> TRUE, error |-> ApiErrorText(response.reason), content |-> Null, sha |-> Null]
    ELSE [threw |-> FALSE, error |-> "",
          content |-> Some(atob(SelectSeq(Val(response.content), LAMBDA c : c # Newline)).bytes),
          sha |-> response.sha]

\* Mutant of CommitBody: a sha member is sent even when there is no sha.
CommitBodyAlwaysSha(encryptedData, sha) ==
    [content |-> btoa(encryptedData), sha |-> IF IsNull(sha) THEN Some(0) ELSE sha]

\* The body commitEncryptedData sends: the content in base64, and the sha when it has one.
CommitBody(encryptedData, sha) == [content |-> btoa(encryptedData), sha |-> sha]

\* Mutant of commitEncryptedData: a response that is not ok is returned like any other.
commitEncryptedDataIgnoresStatus(response) ==
    IF response.status = "network"
    THEN [threw |-> TRUE, error |-> FailedToFetch, sha |-> Null]
    ELSE [threw |-> FALSE, error |-> "", sha |-> response.sha]

\* commitEncryptedData, from the response to its PUT on: the data returned, or the error thrown.
commitEncryptedData(response) ==
    IF response.status = "network"
    THEN [threw |-> TRUE, error |-> FailedToFetch, sha |-> Null]
    ELSE IF response.status \notin {"200", "201"}
    THEN [threw |-> TRUE, error |-> ApiErrorText(response.reason), sha |-> Null]
    ELSE [threw |-> FALSE, error |-> "", sha |-> response.sha]

(***************************************************************************)
(* WheelChart: the figures derived from rating sets and entries.  Ratings  *)
(* are whole numbers; a figure rounded to one decimal is given in tenths,  *)
(* a quotient as its numerator and denominator.  A Date is a whole number  *)
(* of time units, DayLength of them to the day.                            *)
(***************************************************************************)
categories ==
    [health |-> <<"Body", "Mind", "Soul">>,
     relationships |-> <<"Friends", "Romance", "Family">>,
     work |-> <<"Mission", "Money", "Growth">>]

CategoryNames == {"health", "relationships", "work"}

labels == <<"Body", "Mind", "Soul", "Friends", "Romance", "Family", "Mission", "Money", "Growth">>

toLowerCase(label) ==
    CASE label = "Body" -> "body" [] label = "Mind" -> "mind" [] label = "Soul" -> "soul"
      [] label = "Friends" -> "friends" [] label = "Romance" -> "romance"
      [] label = "Family" -> "family" [] label = "Mission" -> "mission"
      [] label = "Money" -> "money" [] label = "Growth" -> "growth"

\* values.reduce((a, b) => a + b, 0)
RECURSIVE Sum(_)
Sum(values) == IF values = <<>> THEN 0 ELSE Head(values) + Sum(Tail(values))

\* Mutant of getCategoryAverage: the values of all nine labels are added up.
getCategoryAverageOfLabels(ratings, category) ==
    LET subcategories == categories[category]
        values == [i \in 1..Len(labels) |-> ratings[toLowerCase(labels[i])]]
    IN [num |-> Sum(values), den |-> Len(subcategories)]

\* getCategoryAverage(ratings, category): the quotient num / den.
getCategoryAverage(ratings, category) ==
    LET subcategories == categories[category]
        values == [i \in 1..Len(subcategories) |-> ratings[toLowerCase(subcategories[i])]]
    IN [num |-> Sum(values), den |-> Len(values)]

\* Object.values(ratings): the values in the order the keys were written.
ObjectValues(ratings) == [i \in 1..Len(RatingKeys) |-> ratings[RatingKeys[i]]]

\* n^3 times the variance of the values, n of them: the sum of (n * val - sum)^2.
Spread(allValues) ==
    LET n == Len(allValues)
        total == Sum(allValues)
    IN Sum([i \in 1..n |-> (n * allValues[i] - total) * (n * allValues[i] - total)])

\* Whether Math.max(0, 10 - stdDev) * 10 is at least m / 2, for m in 1..200:
\* 20 * stdDev <= 200 - m, squared and cleared of fractions.
AtLeastHalves(allValues, m) ==
    LET n == Len(allValues)
    IN 400 * Spread(allValues) <= n * n * n * (200 - m) * (200 - m)

\* Mutant of getBalanceScore: the score is rounded to a whole number.
getBalanceScoreWhole(ratings) ==
    LET allValues == ObjectValues(ratings)
        wholes == {k \in 1..10 : AtLeastHalves(allValues, 20 * k - 10)}
    IN IF wholes = {} THEN 0 ELSE 10 * (CHOOSE k \in wholes : \A j \in wholes : j <= k)

\* getBalanceScore(ratings), in tenths: Math.round(x) is at least k when x >= k - 1/2.
getBalanceScore(ratings) ==
    LET allValues == ObjectValues(ratings)
        tenths == {k \in 1..100 : AtLeastHalves(allValues, 2 * k - 1)}
    IN IF tenths = {} THEN 0 ELSE CHOOSE k \in tenths : \A j \in tenths : j <= k

\* The time units in a day.
DayLength == 2

\* Math.round(x * 10) for the quotient x = num / den of whole numbers, num >= 0.
RoundTenths(num, den) == (20 * num + den) \div (2 * den)

\* Mutant of InWindow: an entry made at the cutoff itself is left out.
InWindowAfter(entry, days, now) == entry.timestamp > now - days * DayLength

\* The filter of calculateAverages: new Date(e.timestamp) >= cutoffDate.
InWindow(entry, days, now) == entry.timestamp >= now - days * DayLength

\* calculateAverages(entries, days) called at the time now: Null, or each key's
\* average in tenths.  days is Null for all entries.
calculateAverages(entries, days, now) ==
    LET filteredEntries == IF IsNull(days) THEN entries
                           ELSE SelectSeq(entries, LAMBDA e : InWindow(e, Val(days), now))
        count == Len(filteredEntries)
    IN IF Len(entries) = 0 \/ count = 0
       THEN Null
       ELSE Some([key \in {RatingKeys[i] : i \in 1..Len(RatingKeys)} |->
                     RoundTenths(Sum([i \in 1..count |-> filteredEntries[i].ratings[key]]),
                                 count)])

\* Mutant of filterByDateRange: the end date itself is left out.
filterByDateRangeOpenEnd(entries, startDate, endDate) ==
    IF IsNull(startDate) /\ IsNull(endDate)
    THEN entries
    ELSE SelectSeq(entries, LAMBDA entry :
            /\ IsNull(startDate) \/ entry.timestamp >= Val(startDate)
            /\ IsNull(endDate) \/ entry.timestamp < Val(endDate))

\* filterByDateRange(entries, startDate, endDate); an absent date is Null.
filterByDateRange(entries, startDate, endDate) ==
    IF IsNull(startDate) /\ IsNull(endDate)
    THEN entries
    ELSE SelectSeq(entries, LAMBDA entry :
            /\ IsNull(startDate) \/ entry.timestamp >= Val(startDate)
            /\ IsNull(endDate) \/ entry.timestamp <= Val(endDate))

\* renderCategoryAveragesTrend(entries): the labels and the three series of the chart,
\* or Null when there is nothing to draw.
renderCategoryAveragesTrend(entries) ==
    IF Len(entries) = 0
    THEN Null
    ELSE Some([labels |-> [i \in 1..Len(entries) |-> entries[i].timestamp],
               health |-> [i \in 1..Len(entries) |->
                              getCategoryAverage(entries[i].ratings, "health")],
               relationships |-> [i \in 1..Len(entries) |->
                              getCategoryAverage(entries[i].ratings, "relationships")],
               work |-> [i \in 1..Len(entries) |->
                              getCategoryAverage(entries[i].ratings, "work")]])

(***************************************************************************)
(* App.calculateChanges, App.renderHistory and App.renderDashboard.        *)
(***************************************************************************)
\* The keys of Object.keys(current), in order, whose difference has the given sign.
ChangedKeys(current, previous, sign) ==
    SelectSeq(RatingKeys, LAMBDA key : sign * (current[key] - previous[key]) > 0)

\* Mutant of calculateChanges: a key that fell by one is not listed.
calculateChangesCoarse(current, previous) ==
    LET up == ChangedKeys(current, previous, 1)
        down == SelectSeq(RatingKeys, LAMBDA key : current[key] - previous[key] < -1)
    IN [improved |-> [i \in 1..Len(up) |->
                         [key |-> up[i], plus |-> TRUE, diff |-> current[up[i]] - previous[up[i]]]],
        declined |-> [i \in 1..Len(down) |->
                         [key |-> down[i], plus |-> FALSE,
                          diff |-> current[down[i]] - previous[down[i]]]],
        hasChanges |-> Len(up) + Len(down) > 0]

\* calculateChanges(current, previous).  An item of improved is the text
\* key (+diff), an item of declined the text key (diff).
calculateChanges(current, previous) ==
    LET up == ChangedKeys(current, previous, 1)
        down == ChangedKeys(current, previous, -1)
    IN [improved |-> [i \in 1..Len(up) |->
                         [key |-> up[i], plus |-> TRUE, diff |-> current[up[i]] - previous[up[i]]]],
        declined |-> [i \in 1..Len(down) |->
                         [key |-> down[i], plus |-> FALSE,
                          diff |-> current[down[i]] - previous[down[i]]]],
        hasChanges |-> Len(up) + Len(down) > 0]

\* [...filteredEntries].reverse()
Reverse(s) == [i \in 1..Len(s) |-> s[Len(s) + 1 - i]]

\* renderHistory with the day chosen in each date input, or Null: the entries shown,
\* top to bottom, each with the entry its changes are taken from.
renderHistory(entries, startDay, endDay) ==
    LET startDate == IF IsNull(startDay) THEN Null ELSE Some(Val(startDay) * DayLength)
        endDate == IF IsNull(endDay) THEN Null
                   ELSE Some(Val(endDay) * DayLength + DayLength - 1)
        filteredEntries == filterByDateRange(entries, startDate, endDate)
        sortedEntries == Reverse(filteredEntries)
    IN [index \in 1..Len(sortedEntries) |->
           [entry |-> sortedEntries[index],
            prevEntry |-> IF index < Len(sortedEntries)
                          THEN Some(sortedEntries[index + 1]) ELSE Null,
            changes |-> IF index < Len(sortedEntries)
                        THEN Some(calculateChanges(sortedEntries[index].ratings,
                                                   sortedEntries[index + 1].ratings))
                        ELSE Null]]

\* renderDashboard: the entry drawn as the latest, the total shown, and whether the
\* analytics are drawn.
renderDashboard(document) ==
    [latestEntry |-> IF Len(document.entries) = 0 THEN Null
                     ELSE Some(document.entries[Len(document.entries)]),
     total |-> Len(document.entries),
     analytics |-> Len(document.entries) > 1]

(***************************************************************************)
(* The figures on their own: SpecScore applies the figures of one rating   *)
(* set, SpecEntries those of a list of entries.                            *)
(***************************************************************************)
VARIABLES
    wRatings,   \* the rating set at hand
    wEntries,   \* the entries of the document at hand
    wOut        \* what was computed last: [op, ...], or Null

chartVars == <<wRatings, wEntries, wOut>>

(***************************************************************************)
(* The codec on its own: SpecCodec.  A document and a password are drawn,  *)
(* encrypt seals them, the envelope may then be damaged the ways an        *)
(* envelope read back from the store can be, and decrypt is applied with   *)
(* any password.                                                           *)
(***************************************************************************)
VARIABLES
    cData,      \* the document given to encrypt
    cPassword,  \* the password given to encrypt
    cEnvelope,  \* the envelope text at hand, or Null before encrypt
    cCause,     \* how the envelope at hand came about
    cTouched,   \* the offset of the byte changed by tampering, or Null
    cResult     \* the last decrypt of the envelope at hand: [password, out], or Null

codecVars == <<cData, cPassword, cEnvelope, cCause, cTouched, cResult>>

NumSalts == 1

NumIvs == 1

\* What getRandomValues may return for the salt, and for the iv.
Salts == {[i \in 1..SaltLength |-> (b * i + 3) % Q] : b \in 1..NumSalts}

Ivs == {[i \in 1..IvLength |-> (b * i * i + 5) % Q] : b \in 1..NumIvs}

Entry(id, timestamp, ratings, notes) ==
    [id |-> id, timestamp |-> timestamp, ratings |-> ratings, notes |-> notes]

CodecDocuments ==
    { createEmptyData,
      [entries |-> <<Entry(2, 3, Ratings(0, 10, 1, 9, 2, 8, 3, 7, 4), 1)>>, version |-> "1.0"],
      [entries |-> <<Entry(1, 1, Uniform(5), 1), Entry(2, 1, Uniform(10), 0)>>,
       version |-> "1.0"] }

CodecPasswords ==
    { Some(<<>>), Some(<<1, 2, 3, 4, 5, 6, 7, 8>>),
      Some(<<8, 7, 6, 5, 4, 3, 2, 1>>), Some(<<1, 2, 3, 4, 5, 6, 7, 9>>) }

\* Plaintexts that are not the JSON text of anything.
NonJsonTexts == { <<>>, <<7>>, <<1, 1>>, <<2, 1, 1, 5, 5, 5, 5, 5, 5, 5, 5, 5, 0, 1>> }

TamperDeltas == {1, 250}

(***************************************************************************)
(* The sessions.  Each session is one page running App against the slot.   *)
(***************************************************************************)
Sessions == {"A", "B"}

MaxTasks == 2

MaxStarted == 4

NumTimestamps == 1

NumIds == 1

VARIABLES
    authenticated,  \* App.state.authenticated, per session
    pat,            \* App.state.pat
    password,       \* App.state.password
    data,           \* App.state.data
    currentSHA,     \* App.state.currentSHA
    localStorage,   \* the page's localStorage: github_pat and remember_password
    message,        \* the message showError or showSuccess showed last
    tasks,          \* the handler invocations that are suspended at an await
    slot,           \* the remote slot: its content and its version token
    revisions,      \* how many revisions the slot has had
    started,        \* how many handlers have been started and have acted, in all
    seen,           \* the tokens each session has fetched, or got by writing
    fetchedOk,      \* whether a fetch of the session has completed successfully
    needRefetch,    \* a save of the session has failed and no load has succeeded since
    overlapped      \* a handler of the session started while another was suspended

appVars ==
    <<authenticated, pat, password, data, currentSHA, localStorage, message, tasks, slot,
      revisions, started, seen, fetchedOk, needRefetch, overlapped>>

vars == <<appVars, codecVars, chartVars>>

\* What the user may submit in the password form: nothing, too few characters, and two
\* passwords that pass, one with the remember box ticked.
PasswordInputs ==
    {[password |-> <<>>, remember |-> FALSE],
     [password |-> <<1, 2, 3>>, remember |-> FALSE],
     [password |-> <<1, 2, 3, 4, 5, 6, 7, 8>>, remember |-> TRUE],
     [password |-> <<8, 7, 6, 5, 4, 3, 2, 1>>, remember |-> FALSE]}

\* What the user may enter as a token, trimmed: nothing, the valid one, a revoked one.
PatInputs == {"", ValidPAT, "pat-revoked"}

\* What the sliders and the notes field may hold when an entry is submitted.
\* parseInt of a slider's value: an integer, in 0..10 as long as the sliders are left as
\* the page sets them up, or NaN when the value is no number.
SliderRatings == {Ratings(0, 10, 1, 9, 2, 8, 3, 7, 4)}

RatingInputs == SliderRatings \cup {Ratings(NaN, 11, 1, 9, 2, 8, 3, 7, 4)}

NotesInputs == {0}

\* What generateUUID may return.
Ids == 1..NumIds

\* What new Date().toISOString() may return.
Timestamps == 1..NumTimestamps

NoMessage == [kind |-> "none", text |-> "", detail |-> ""]

ErrorMessage(text, detail) == [kind |-> "error", text |-> text, detail |-> detail]

SuccessMessage(text) == [kind |-> "success", text |-> text, detail |-> ""]

IdleTask ==
    [pc |-> "idle", password |-> Null, pat |-> Null, frozen |-> Null, salt |-> <<>>,
     iv |-> <<>>, encrypted |-> Null, sha |-> Null, response |-> NoResponse]

Busy(s) == \E k \in 1..MaxTasks : tasks[s][k].pc # "idle"

HasFree(s) == \E k \in 1..MaxTasks : tasks[s][k].pc = "idle"

\* The place a newly suspended handler takes.
Free(s) ==
    CHOOSE k \in 1..MaxTasks :
        /\ tasks[s][k].pc = "idle"
        /\ \A j \in 1..(k - 1) : tasks[s][j].pc # "idle"

\* Mutant of InitData: the state starts with an empty document instead of null.
InitDataEmptyDocument == Some(createEmptyData)

\* App.state.data as declared.
InitData == Null

\* App.state after App.init: the token is the one localStorage holds, if any.
AppStart(stored) ==
    /\ localStorage = [s \in Sessions |-> [github_pat |-> stored, remember_password |-> Null]]
    /\ pat = [s \in Sessions |-> localStorage[s].github_pat]
    /\ authenticated = [s \in Sessions |-> FALSE]
    /\ password = [s \in Sessions |-> Null]
    /\ data = [s \in Sessions |-> InitData]
    /\ currentSHA = [s \in Sessions |-> Null]
    /\ message = [s \in Sessions |-> NoMessage]
    /\ tasks = [s \in Sessions |-> [k \in 1..MaxTasks |-> IdleTask]]
    /\ slot = [content |-> Null, sha |-> Null]
    /\ revisions = 0
    /\ started = 0
    /\ seen = [s \in Sessions |-> {}]
    /\ fetchedOk = [s \in Sessions |-> FALSE]
    /\ needRefetch = [s \in Sessions |-> FALSE]
    /\ overlapped = [s \in Sessions |-> FALSE]

\* The codec harness before anything is sealed.
CodecStart(document, secret) ==
    /\ cData = document
    /\ cPassword = secret
    /\ cEnvelope = Null
    /\ cCause = "none"
    /\ cTouched = Null
    /\ cResult = Null

\* The figures before anything is computed.
ChartStart(ratings, entries) ==
    /\ wRatings = ratings
    /\ wEntries = entries
    /\ wOut = Null

\* The pages are either all new, or all set up with the token.
Init ==
    \E stored \in {Null, Some(ValidPAT)} :
        /\ AppStart(stored)
        /\ CodecStart(createEmptyData, Some(<<>>))
        /\ ChartStart(Uniform(0), <<>>)

(***************************************************************************)
(* App.handlePATSubmit and GitHubModule.testPAT.                           *)
(***************************************************************************)
\* Mutant of testPAT: every answer counts as access.
testPATAlwaysTrue(response) == TRUE

\* testPAT(pat), from the response to its GET on: response.ok, or false when fetch rejects.
testPAT(response) == response.status = "200"

handlePATSubmit(s, input) ==
    /\ started < MaxStarted
    /\ started' = started + 1
    /\ IF input = ""
       THEN /\ message' = [message EXCEPT
                              ![s] = ErrorMessage("Please enter a valid GitHub PAT", "")]
            /\ UNCHANGED <<tasks, overlapped>>
       ELSE /\ HasFree(s)
            /\ tasks' = [tasks EXCEPT ![s][Free(s)] =
                            [IdleTask EXCEPT !.pc = "testing", !.pat = Some(input)]]
            /\ overlapped' = [overlapped EXCEPT ![s] = @ \/ Busy(s)]
            /\ UNCHANGED message
    /\ UNCHANGED <<chartVars, codecVars, authenticated, pat, password, data, currentSHA, localStorage, slot,
                   revisions, seen, fetchedOk, needRefetch>>

\* The rest of handlePATSubmit, once testPAT has answered.
PATTested(s, k) ==
    /\ tasks[s][k].pc = "testing"
    /\ \E response \in {[NoResponse EXCEPT !.status =
                            IF Authorized(tasks[s][k].pat) THEN "200" ELSE "401"],
                        [NoResponse EXCEPT !.status = "network"]} :
          IF testPAT(response)
          THEN /\ localStorage' = [localStorage EXCEPT ![s].github_pat = tasks[s][k].pat]
               /\ pat' = [pat EXCEPT ![s] = tasks[s][k].pat]
               /\ message' = [message EXCEPT
                                 ![s] = SuccessMessage("PAT validated and stored successfully!")]
          ELSE /\ message' = [message EXCEPT ![s] = ErrorMessage(
                                 "Invalid PAT or insufficient permissions. Please check your token.", "")]
               /\ UNCHANGED <<localStorage, pat>>
    /\ tasks' = [tasks EXCEPT ![s][k] = IdleTask]
    /\ UNCHANGED <<chartVars, codecVars, authenticated, password, data, currentSHA, slot, revisions, started,
                   seen, fetchedOk, needRefetch, overlapped>>

(***************************************************************************)
(* App.handlePasswordSubmit: the load.                                     *)
(***************************************************************************)
PasswordTooShort == "Password must be at least 8 characters long"

WelcomeText == "Welcome! Let's create your first entry."

LoadedText == "Data loaded successfully!"

DecryptErrorText == "Failed to decrypt data. Please check your password."

LoadErrorText == "Error loading data: "

\* Mutant of RememberValue: a digest of the password is what is remembered.
RememberValueDigest(input) == IF Digest(input, Len(input)) % 2 = 0 THEN "digest-0" ELSE "digest-1"

\* The value set under REMEMBER_PASSWORD_KEY for the password entered.
RememberValue(input) == "true"

\* Up to the await of fetchEncryptedData.
handlePasswordSubmit(s, input, remember) ==
    /\ started < MaxStarted
    /\ started' = started + 1
    /\ IF ~validatePassword(Some(input))
       THEN /\ message' = [message EXCEPT ![s] = ErrorMessage(PasswordTooShort, "")]
            /\ UNCHANGED <<password, localStorage, tasks, overlapped>>
       ELSE /\ HasFree(s)
            /\ password' = [password EXCEPT ![s] = Some(input)]
            /\ localStorage' = [localStorage EXCEPT ![s].remember_password =
                                   IF remember THEN Some(RememberValue(input)) ELSE @]
            /\ tasks' = [tasks EXCEPT ![s][Free(s)] =
                            [IdleTask EXCEPT !.pc = "fetching", !.password = Some(input),
                                             !.pat = pat[s]]]
            /\ overlapped' = [overlapped EXCEPT ![s] = @ \/ Busy(s)]
            /\ UNCHANGED message
    /\ UNCHANGED <<chartVars, codecVars, authenticated, pat, data, currentSHA, slot, revisions, seen,
                   fetchedOk, needRefetch>>

\* The store answers the GET, or the request fails on the way.
StoreAnswersGet(s, k) ==
    /\ tasks[s][k].pc = "fetching"
    /\ \E response \in StoreAnswers(StoreGet(slot, tasks[s][k].pat))
                          \cup {[NoResponse EXCEPT !.status = "network"]} :
          tasks' = [tasks EXCEPT ![s][k].pc = "fetched", ![s][k].response = response]
    /\ UNCHANGED <<chartVars, codecVars, authenticated, pat, password, data, currentSHA, localStorage, message, slot,
                   revisions, started, seen, fetchedOk, needRefetch, overlapped>>

\* A save that has not yet serialised the document holds the object that was
\* App.state.data when it started; once a load assigns another object, it keeps the old one.
Released(s, k, old) ==
    [j \in 1..MaxTasks |->
        IF j = k THEN IdleTask
        ELSE IF tasks[s][j].pc = "deriving" /\ IsNull(tasks[s][j].frozen)
        THEN [tasks[s][j] EXCEPT !.frozen = old]
        ELSE tasks[s][j]]

\* Mutant of PasswordAfterDecryptError: the password is kept.
PasswordAfterDecryptErrorKept(s) == password[s]

\* this.state.password after decrypt has thrown.
PasswordAfterDecryptError(s) == Null

\* From the return of fetchEncryptedData to the end of handlePasswordSubmit (the
\* await of decrypt reads and writes no state, and is taken together with what follows).
PasswordSubmitResumes(s, k) ==
    /\ tasks[s][k].pc = "fetched"
    /\ LET fetched == fetchEncryptedData(tasks[s][k].response)
           decrypted == decrypt(Val(fetched.content), tasks[s][k].password)
       IN IF fetched.threw
          THEN /\ message' = [message EXCEPT ![s] = ErrorMessage(LoadErrorText, fetched.error)]
               /\ tasks' = [tasks EXCEPT ![s][k] = IdleTask]
               /\ UNCHANGED <<authenticated, password, data, currentSHA, seen, fetchedOk,
                              needRefetch>>
          ELSE IF IsNull(fetched.content)
          THEN /\ data' = [data EXCEPT ![s] = Some(createEmptyData)]
               /\ currentSHA' = [currentSHA EXCEPT ![s] = Null]
               /\ authenticated' = [authenticated EXCEPT ![s] = TRUE]
               /\ message' = [message EXCEPT ![s] = SuccessMessage(WelcomeText)]
               /\ tasks' = [tasks EXCEPT ![s] = Released(s, k, data[s])]
               /\ fetchedOk' = [fetchedOk EXCEPT ![s] = TRUE]
               /\ needRefetch' = [needRefetch EXCEPT ![s] = FALSE]
               /\ UNCHANGED <<password, seen>>
          ELSE IF decrypted.ok
          THEN /\ data' = [data EXCEPT ![s] = Some(decrypted.value)]
               /\ currentSHA' = [currentSHA EXCEPT ![s] = fetched.sha]
               /\ authenticated' = [authenticated EXCEPT ![s] = TRUE]
               /\ message' = [message EXCEPT ![s] = SuccessMessage(LoadedText)]
               /\ tasks' = [tasks EXCEPT ![s] = Released(s, k, data[s])]
               /\ fetchedOk' = [fetchedOk EXCEPT ![s] = TRUE]
               /\ needRefetch' = [needRefetch EXCEPT ![s] = FALSE]
               /\ seen' = [seen EXCEPT ![s] = @ \cup {Val(fetched.sha)}]
               /\ UNCHANGED password
          ELSE /\ message' = [message EXCEPT ![s] = ErrorMessage(DecryptErrorText, "")]
               /\ password' = [password EXCEPT ![s] = PasswordAfterDecryptError(s)]
               /\ tasks' = [tasks EXCEPT ![s][k] = IdleTask]
               /\ fetchedOk' = [fetchedOk EXCEPT ![s] = TRUE]
               /\ seen' = [seen EXCEPT ![s] = @ \cup {Val(fetched.sha)}]
               /\ UNCHANGED <<authenticated, data, currentSHA, needRefetch>>
    /\ UNCHANGED <<chartVars, codecVars, pat, localStorage, slot, revisions, started, overlapped>>

(***************************************************************************)
(* App.handleEntrySubmit and App.saveData: the save.                       *)
(***************************************************************************)
SavedText == "Data saved successfully!"

SaveErrorText == "Failed to save data: "

\* Up to the first await of encrypt.  With no document loaded the push throws and
\* nothing has happened.
handleEntrySubmit(s, ratings, notes, id, timestamp) ==
    IF IsNull(data[s])
    THEN UNCHANGED vars
    ELSE /\ HasFree(s)
         /\ started < MaxStarted
         /\ data' = [data EXCEPT ![s] = Some([Val(@) EXCEPT !.entries =
                        Append(@, Entry(id, timestamp, ratings, notes))])]
         /\ \E salt \in Salts, iv \in Ivs :
               tasks' = [tasks EXCEPT ![s][Free(s)] =
                            [IdleTask EXCEPT !.pc = "deriving", !.password = password[s],
                                             !.salt = salt, !.iv = iv]]
         /\ started' = started + 1
         /\ overlapped' = [overlapped EXCEPT ![s] = @ \/ Busy(s)]
         /\ UNCHANGED <<chartVars, codecVars, authenticated, pat, password, currentSHA, localStorage,
                        message, slot, revisions, seen, fetchedOk, needRefetch>>

\* encrypt, from the return of deriveKey to the await of crypto.subtle.encrypt: the
\* document is serialised as it is now.
EncryptSerialises(s, k) ==
    /\ tasks[s][k].pc = "deriving"
    /\ LET held == IF IsNull(tasks[s][k].frozen) THEN Val(data[s]) ELSE Val(tasks[s][k].frozen)
       IN tasks' = [tasks EXCEPT
                       ![s][k].pc = "encrypting",
                       ![s][k].frozen = Null,
                       ![s][k].encrypted = Some(encrypt(held, tasks[s][k].password,
                                                        tasks[s][k].salt, tasks[s][k].iv))]
    /\ UNCHANGED <<chartVars, codecVars, authenticated, pat, password, data, currentSHA, localStorage, message, slot,
                   revisions, started, seen, fetchedOk, needRefetch, overlapped>>

\* Mutant of PutSha: the put names whatever revision the slot has now.
PutShaLatest(s) == slot.sha

\* Mutant of PutSha: once a save has failed, the put names a token fetched anew.
PutShaRefetched(s) == IF needRefetch[s] THEN slot.sha ELSE currentSHA[s]

\* The sha saveData passes to commitEncryptedData.
PutSha(s) == currentSHA[s]

\* saveData calls commitEncryptedData once encrypt has returned: the PUT is sent.
SaveCommits(s, k) ==
    /\ tasks[s][k].pc = "encrypting"
    /\ tasks' = [tasks EXCEPT ![s][k].pc = "putting", ![s][k].pat = pat[s],
                              ![s][k].sha = PutSha(s)]
    /\ UNCHANGED <<chartVars, codecVars, authenticated, pat, password, data, currentSHA, localStorage, message, slot,
                   revisions, started, seen, fetchedOk, needRefetch, overlapped>>

\* The store answers the PUT: the request is lost, refused, or applied; the response
\* to an applied PUT may be lost as well.
StoreAnswersPut(s, k) ==
    /\ tasks[s][k].pc = "putting"
    /\ LET body == CommitBody(Val(tasks[s][k].encrypted), tasks[s][k].sha)
           refused == IF ~Authorized(tasks[s][k].pat) THEN "401" ELSE StoreRefusal(slot, body.sha)
           token == Some(revisions + 1)
       IN \/ /\ tasks' = [tasks EXCEPT ![s][k].pc = "putDone",
                                       ![s][k].response = [NoResponse EXCEPT !.status = "network"]]
             /\ UNCHANGED <<slot, revisions, seen>>
          \/ /\ ~(Authorized(tasks[s][k].pat) /\ StoreAccepts(slot, body.sha))
             /\ \E response \in StoreAnswers([NoResponse EXCEPT !.status = refused]) :
                   tasks' = [tasks EXCEPT ![s][k].pc = "putDone", ![s][k].response = response]
             /\ UNCHANGED <<slot, revisions, seen>>
          \/ /\ Authorized(tasks[s][k].pat) /\ StoreAccepts(slot, body.sha)
             /\ slot' = [content |-> Some(atob(body.content).bytes), sha |-> token]
             /\ revisions' = revisions + 1
             /\ seen' = [seen EXCEPT ![s] = @ \cup {Val(token)}]
             /\ \/ /\ tasks' = [tasks EXCEPT ![s][k].pc = "putDone",
                                   ![s][k].response =
                                       [status |-> IF IsNull(slot.sha) THEN "201" ELSE "200",
                                        reason |-> "", content |-> Null, sha |-> token]]
                \/ /\ tasks' = [tasks EXCEPT ![s][k].pc = "putDone",
                                   ![s][k].response = [NoResponse EXCEPT !.status = "network"]]
    /\ UNCHANGED <<chartVars, codecVars, authenticated, pat, password, data, currentSHA, localStorage, message, started, fetchedOk, needRefetch, overlapped>>

\* Mutant of ShaAfterSave: the sha is left as it was.
ShaAfterSaveKept(s, committed) == currentSHA[s]

\* The sha saveData stores after a commit: response.content.sha.
ShaAfterSave(s, committed) == committed.sha

\* From the return of commitEncryptedData to the end of saveData.
SaveResumes(s, k) ==
    /\ tasks[s][k].pc = "putDone"
    /\ LET committed == commitEncryptedData(tasks[s][k].response)
       IN IF committed.threw
          THEN /\ message' = [message EXCEPT ![s] = ErrorMessage(SaveErrorText, committed.error)]
               /\ needRefetch' = [needRefetch EXCEPT ![s] = TRUE]
               /\ UNCHANGED currentSHA
          ELSE /\ currentSHA' = [currentSHA EXCEPT ![s] = ShaAfterSave(s, committed)]
               /\ message' = [message EXCEPT ![s] = SuccessMessage(SavedText)]
               /\ UNCHANGED needRefetch
    /\ tasks' = [tasks EXCEPT ![s][k] = IdleTask]
    /\ UNCHANGED <<chartVars, codecVars, authenticated, pat, password, data, localStorage, slot, revisions, started, seen, fetchedOk, overlapped>>

(***************************************************************************)
(* App.logout.                                                             *)
(***************************************************************************)
\* Mutant of logout: the document and its sha are cleared as well.
logoutClearsDocument(s, confirmed) ==
    /\ IF confirmed
       THEN /\ started < MaxStarted
            /\ authenticated' = [authenticated EXCEPT ![s] = FALSE]
            /\ password' = [password EXCEPT ![s] = Null]
            /\ data' = [data EXCEPT ![s] = Null]
            /\ currentSHA' = [currentSHA EXCEPT ![s] = Null]
            /\ started' = started + 1
       ELSE UNCHANGED <<authenticated, password, data, currentSHA, started>>
    /\ UNCHANGED <<chartVars, codecVars, pat, localStorage, message, tasks, slot, revisions, seen, fetchedOk, needRefetch, overlapped>>

\* logout(): confirm() has answered `confirmed`.
logout(s, confirmed) ==
    /\ IF confirmed
       THEN /\ started < MaxStarted
            /\ authenticated' = [authenticated EXCEPT ![s] = FALSE]
            /\ password' = [password EXCEPT ![s] = Null]
            /\ started' = started + 1
       ELSE UNCHANGED <<authenticated, password, started>>
    /\ UNCHANGED <<chartVars, codecVars, pat, data, currentSHA, localStorage, message, tasks, slot, revisions, seen, fetchedOk, needRefetch, overlapped>>

(***************************************************************************)
(* Another writer on the slot: a page elsewhere that has loaded the slot's  *)
(* document and saves its own, fetch and PUT taken together.                *)
(***************************************************************************)
MaxRevisions == 2

\* What the other page may save: a document of one entry, under the first password.
OtherDocuments ==
    {[entries |-> <<Entry(1, 1, Uniform(5), 0)>>, version |-> "1.0"]}

OtherPasswords == {Some(<<1, 2, 3, 4, 5, 6, 7, 8>>)}

\* The other page's saveData: its PUT names the slot's current token and is applied.
OtherWriterCommits ==
    /\ ~IsNull(slot.content)
    /\ revisions < MaxRevisions
    /\ \E document \in OtherDocuments, secret \in OtherPasswords, salt \in Salts, iv \in Ivs :
          LET body == CommitBody(encrypt(document, secret, salt, iv), slot.sha)
          IN slot' = [content |-> Some(atob(body.content).bytes), sha |-> Some(revisions + 1)]
    /\ revisions' = revisions + 1
    /\ UNCHANGED <<chartVars, codecVars, authenticated, pat, password, data, currentSHA, localStorage,
                   message, tasks, started, seen, fetchedOk, needRefetch, overlapped>>

(***************************************************************************)
(* The codec harness: a document is sealed, the envelope is damaged in one  *)
(* of several ways or left alone, and then opened.                         *)
(***************************************************************************)
InitCodec ==
    \E document \in CodecDocuments, secret \in CodecPasswords :
        CodecStart(document, secret) /\ AppStart(Null) /\ ChartStart(Uniform(0), <<>>)

CodecEncrypt ==
    /\ cCause = "none"
    /\ \E salt \in Salts, iv \in Ivs :
          cEnvelope' = Some(encrypt(cData, cPassword, salt, iv))
    /\ cCause' = "sealed"
    /\ cResult' = Null
    /\ UNCHANGED <<appVars, chartVars, cData, cPassword, cTouched>>

\* One byte of the envelope takes another value.
CodecTamper ==
    /\ cCause = "sealed"
    /\ LET bytes == atob(Val(cEnvelope)).bytes
       IN \E i \in 1..Len(bytes), d \in TamperDeltas :
             /\ cEnvelope' = Some(btoa([bytes EXCEPT ![i] = (bytes[i] + d) % Q]))
             /\ cTouched' = Some(i - 1)
    /\ cCause' = "tampered"
    /\ cResult' = Null
    /\ UNCHANGED <<appVars, chartVars, cData, cPassword>>

\* The envelope loses its last bytes, down to none at all.
CodecTruncate ==
    /\ cCause = "sealed"
    /\ LET bytes == atob(Val(cEnvelope)).bytes
       IN \E n \in 0..(Len(bytes) - 1) :
             cEnvelope' = Some(btoa(SubSeq(bytes, 1, n)))
    /\ cCause' = "truncated"
    /\ cResult' = Null
    /\ UNCHANGED <<appVars, chartVars, cData, cPassword, cTouched>>

\* The envelope text stops being base64: a foreign character, or a length atob refuses.
CodecGarble ==
    /\ cCause = "sealed"
    /\ LET text == Val(cEnvelope)
       IN \/ \E i \in {1, Len(text) \div 2, Len(text)} :
                cEnvelope' = Some([text EXCEPT ![i] = BadChar])
          \/ \E k \in 0..((Len(text) \div 4) - 1) : cEnvelope' = Some(SubSeq(text, 1, 4 * k + 1))
    /\ cCause' = "undecodable"
    /\ cResult' = Null
    /\ UNCHANGED <<appVars, chartVars, cData, cPassword, cTouched>>

\* Another writer sealed, under the same password, bytes that are not JSON.
CodecForeign ==
    /\ cCause = "none"
    /\ \E salt \in Salts, iv \in Ivs, text \in NonJsonTexts :
          cEnvelope' = Some(btoa(Combine(salt, iv,
                                 SubtleEncrypt(deriveKey(cPassword, salt), iv, text))))
    /\ cCause' = "notJson"
    /\ cResult' = Null
    /\ UNCHANGED <<appVars, chartVars, cData, cPassword, cTouched>>

CodecDecrypt ==
    /\ cCause # "none"
    /\ \E p \in CodecPasswords :
          cResult' = Some([password |-> p, out |-> decrypt(Val(cEnvelope), p)])
    /\ UNCHANGED <<appVars, chartVars, cData, cPassword, cEnvelope, cCause, cTouched>>

NextCodec ==
    \/ CodecEncrypt
    \/ CodecTamper
    \/ CodecTruncate
    \/ CodecGarble
    \/ CodecForeign
    \/ CodecDecrypt


(***************************************************************************)
(* The figures of one rating set: a rating set is drawn, and one of        *)
(* getBalanceScore, getCategoryAverage and calculateChanges is applied.    *)
(***************************************************************************)
\* The rating sets drawn: every mix of 9 and 10, every mix of 0 and 10, and all fives.
ScoreRatings ==
    [{RatingKeys[i] : i \in 1..Len(RatingKeys)} -> {9, 10}]
        \cup [{RatingKeys[i] : i \in 1..Len(RatingKeys)} -> {0, 10}]
        \cup {Uniform(5)}

\* The rating sets of the entry before.
PreviousRatings == {Uniform(9), Uniform(5), Ratings(0, 10, 1, 9, 2, 8, 3, 7, 4)}

InitScore ==
    \E ratings \in ScoreRatings :
        /\ AppStart(Null)
        /\ CodecStart(createEmptyData, Some(<<>>))
        /\ ChartStart(ratings, <<>>)

BalanceScored ==
    /\ IsNull(wOut)
    /\ wOut' = Some([op |-> "getBalanceScore", value |-> getBalanceScore(wRatings)])
    /\ UNCHANGED <<appVars, codecVars, wRatings, wEntries>>

CategoryAveraged(category) ==
    /\ IsNull(wOut)
    /\ wOut' = Some([op |-> "getCategoryAverage", category |-> category,
                     value |-> getCategoryAverage(wRatings, category)])
    /\ UNCHANGED <<appVars, codecVars, wRatings, wEntries>>

ChangesCalculated(previous) ==
    /\ IsNull(wOut)
    /\ wOut' = Some([op |-> "calculateChanges", previous |-> previous,
                     value |-> calculateChanges(wRatings, previous)])
    /\ UNCHANGED <<appVars, codecVars, wRatings, wEntries>>

NextScore ==
    \/ BalanceScored
    \/ \E category \in CategoryNames : CategoryAveraged(category)
    \/ \E previous \in PreviousRatings : ChangesCalculated(previous)

(***************************************************************************)
(* The figures of a list of entries: the entries of a document are drawn,  *)
(* in any order of their timestamps (the clock of the page that appended   *)
(* an entry is its own), and one of calculateAverages, filterByDateRange,  *)
(* renderHistory, renderDashboard and renderCategoryAveragesTrend is       *)
(* applied.                                                                *)
(***************************************************************************)
MaxEntries == 3

MaxTime == 3

\* The times an entry may bear, and the days they fall on.
EntryTimes == 0..MaxTime

EntryDays == {time \div DayLength : time \in EntryTimes}

EntryRatings == {Uniform(5), Ratings(6, 4, 5, 5, 5, 5, 5, 5, 10)}

EntryLists ==
    UNION {{[i \in 1..n |-> Entry(i, times[i], ratings[i], 0)] :
               times \in [1..n -> EntryTimes], ratings \in [1..n -> EntryRatings]} :
           n \in 0..MaxEntries}

\* The time calculateAverages is called at: no entry is from later.
Nows == {MaxTime, MaxTime + 1}

InitEntries ==
    \E entries \in EntryLists :
        /\ AppStart(Null)
        /\ CodecStart(createEmptyData, Some(<<>>))
        /\ ChartStart(Uniform(0), entries)

AveragesCalculated(days, now) ==
    /\ IsNull(wOut)
    /\ wOut' = Some([op |-> "calculateAverages", days |-> days, now |-> now,
                     value |-> calculateAverages(wEntries, days, now)])
    /\ UNCHANGED <<appVars, codecVars, wRatings, wEntries>>

RangeFiltered(startDate, endDate) ==
    /\ IsNull(wOut)
    /\ wOut' = Some([op |-> "filterByDateRange", startDate |-> startDate, endDate |-> endDate,
                     value |-> filterByDateRange(wEntries, startDate, endDate)])
    /\ UNCHANGED <<appVars, codecVars, wRatings, wEntries>>

HistoryRendered(startDay, endDay) ==
    /\ IsNull(wOut)
    /\ wOut' = Some([op |-> "renderHistory", startDay |-> startDay, endDay |-> endDay,
                     value |-> renderHistory(wEntries, startDay, endDay)])
    /\ UNCHANGED <<appVars, codecVars, wRatings, wEntries>>

DashboardRendered ==
    /\ IsNull(wOut)
    /\ wOut' = Some([op |-> "renderDashboard",
                     value |-> renderDashboard([entries |-> wEntries, version |-> "1.0"])])
    /\ UNCHANGED <<appVars, codecVars, wRatings, wEntries>>

TrendRendered ==
    /\ IsNull(wOut)
    /\ Len(wEntries) >= 2
    /\ wOut' = Some([op |-> "renderCategoryAveragesTrend",
                     value |-> renderCategoryAveragesTrend(wEntries)])
    /\ UNCHANGED <<appVars, codecVars, wRatings, wEntries>>

NextEntries ==
    \/ \E days \in {Null} \cup {Some(d) : d \in 0..(MaxTime \div DayLength)}, now \in Nows :
          AveragesCalculated(days, now)
    \/ \E startDate, endDate \in {Null} \cup {Some(time) : time \in EntryTimes} :
          RangeFiltered(startDate, endDate)
    \/ \E startDay, endDay \in {Null} \cup {Some(day) : day \in EntryDays} :
          HistoryRendered(startDay, endDay)
    \/ DashboardRendered
    \/ TrendRendered

(***************************************************************************)
(* The specifications.                                                     *)
(***************************************************************************)
\* Everything session s and the store on its behalf can do, the sliders holding one of
\* `sliders` when an entry is submitted.
SessionStepWith(s, sliders) ==
    \/ \E input \in PatInputs : handlePATSubmit(s, input)
    \/ \E k \in 1..MaxTasks : PATTested(s, k)
    \/ \E input \in PasswordInputs : handlePasswordSubmit(s, input.password, input.remember)
    \/ \E k \in 1..MaxTasks : StoreAnswersGet(s, k)
    \/ \E k \in 1..MaxTasks : PasswordSubmitResumes(s, k)
    \/ \E ratings \in sliders, notes \in NotesInputs, id \in Ids, timestamp \in Timestamps :
          handleEntrySubmit(s, ratings, notes, id, timestamp)
    \/ \E k \in 1..MaxTasks : EncryptSerialises(s, k)
    \/ \E k \in 1..MaxTasks : SaveCommits(s, k)
    \/ \E k \in 1..MaxTasks : StoreAnswersPut(s, k)
    \/ \E k \in 1..MaxTasks : SaveResumes(s, k)
    \/ \E confirmed \in BOOLEAN : logout(s, confirmed)

SessionStep(s) == SessionStepWith(s, RatingInputs)

Next == \E s \in Sessions : SessionStepWith(s, SliderRatings)

\* The sessions against the shared slot, their sliders left in range.
Spec == Init /\ [][Next]_vars

NextSolo == SessionStep("A")

\* One session alone: no other writer; the sliders may hold anything.
SpecSolo == Init /\ [][NextSolo]_vars

\* The loads and saves of session "A", its logout, and the other writer.
NextRival ==
    \/ \E input \in PasswordInputs : handlePasswordSubmit("A", input.password, input.remember)
    \/ \E k \in 1..MaxTasks : StoreAnswersGet("A", k)
    \/ \E k \in 1..MaxTasks : PasswordSubmitResumes("A", k)
    \/ \E ratings \in SliderRatings, notes \in NotesInputs, id \in Ids, timestamp \in Timestamps :
          handleEntrySubmit("A", ratings, notes, id, timestamp)
    \/ \E k \in 1..MaxTasks : EncryptSerialises("A", k)
    \/ \E k \in 1..MaxTasks : SaveCommits("A", k)
    \/ \E k \in 1..MaxTasks : StoreAnswersPut("A", k)
    \/ \E k \in 1..MaxTasks : SaveResumes("A", k)
    \/ \E confirmed \in BOOLEAN : logout("A", confirmed)
    \/ OtherWriterCommits

\* One session, its token set up or not, and another writer on the slot; the sliders
\* are left in range.
SpecRival == Init /\ [][NextRival]_vars

\* The codec on its own.
SpecCodec == InitCodec /\ [][NextCodec]_vars

\* The figures of one rating set.
SpecScore == InitScore /\ [][NextScore]_vars

\* The figures of a list of entries.
SpecEntries == InitEntries /\ [][NextEntries]_vars

(***************************************************************************)
(* Properties of the codec (SpecCodec).                                    *)
(***************************************************************************)
Decrypted == ~IsNull(cResult)

DecryptedWith(p) == Decrypted /\ Val(cResult).password = p

Outcome == Val(cResult).out

AuthenticationFailure ==
    /\ ~Outcome.ok
    /\ Outcome.message = DecryptionFailedMessage
    /\ Outcome.detail = ""

\* C6: decrypting, with the password it was sealed under, an envelope that encrypt
\* produced succeeds and returns a document equal to the one encrypted.
C6_RoundTrip ==
    (cCause = "sealed" /\ DecryptedWith(cPassword)) =>
        (Outcome.ok /\ Outcome.value = cData)

C6_Witness ==
    /\ cCause = "sealed"
    /\ DecryptedWith(cPassword)
    /\ Len(cData.entries) = 2
    /\ Outcome.ok

\* C7: decrypting an envelope that encrypt produced with any password other than the
\* one it was sealed under fails with the decryption error and returns no document.
C7_WrongPasswordFails ==
    (cCause = "sealed" /\ Decrypted /\ Val(cResult).password # cPassword) =>
        AuthenticationFailure

C7_Witness ==
    /\ cCause = "sealed"
    /\ Decrypted
    /\ Val(cResult).password # cPassword
    /\ Len(cData.entries) > 0
    /\ ~Outcome.ok

\* C8: an envelope that differs in one byte (of the salt, the nonce, the ciphertext or
\* the tag) from one that encrypt produced fails to decrypt, with the decryption error,
\* under every password.
C8_TamperDetected ==
    (cCause = "tampered" /\ Decrypted) => AuthenticationFailure

C8_Witness ==
    /\ cCause = "tampered"
    /\ DecryptedWith(cPassword)
    /\ Val(cTouched) >= 8
    /\ Val(cTouched) < 16
    /\ ~Outcome.ok

TaskIds == 1..MaxTasks

SaveStages == {"deriving", "encrypting", "putting", "putDone"}

\* The store answers the PUT of task k of session s in this step.
PutAnswered(s, k) == tasks[s][k].pc = "putting" /\ tasks'[s][k].pc = "putDone"

\* Task k of session s sends its PUT in this step.
PutIssued(s, k) == tasks[s][k].pc = "encrypting" /\ tasks'[s][k].pc = "putting"

\* saveData of task k of session s ends in this step, having committed.
SaveSucceeded(s, k) ==
    /\ tasks[s][k].pc = "putDone"
    /\ tasks'[s][k].pc = "idle"
    /\ ~commitEncryptedData(tasks[s][k].response).threw

\* handlePasswordSubmit of task k of session s ends in this step.
LoadEnded(s, k) == tasks[s][k].pc = "fetched" /\ tasks'[s][k].pc = "idle"

\* C1: with two sessions on the one slot, a PUT whose token is not the slot's current
\* token (none at all included) is refused, its caller gets an error, and the slot keeps
\* its content and token; and whenever a session's PUT changes the slot, the revision it
\* replaces is one that session has fetched or written, or the slot was empty.
C1_StaleCommitRejected ==
    [][\A s \in Sessions, k \in TaskIds :
          PutAnswered(s, k) =>
              /\ tasks[s][k].sha # slot.sha =>
                    /\ slot' = slot
                    /\ commitEncryptedData(tasks'[s][k].response).threw
              /\ slot' # slot => IsNull(slot.sha) \/ Val(slot.sha) \in seen[s]]_vars

\* Both sessions loaded the empty slot, one has saved since, and the other's PUT, which
\* names no token, has been refused.
C1_Witness ==
    \E s \in Sessions, k \in TaskIds :
        /\ tasks[s][k].pc = "putDone"
        /\ IsNull(tasks[s][k].sha)
        /\ tasks[s][k].response.status = "422"
        /\ seen[s] = {}
        /\ \A t \in Sessions : fetchedOk[t] /\ ~IsNull(data[t])
        /\ slot.sha = Some(1)

\* C2: a session alone.  When saveData succeeds, currentSHA becomes the token that PUT
\* returned; and while the session's handlers run one after the other, that token is the
\* slot's current one, and as long as no save has failed since the last load every PUT
\* the session sends carries the slot's current token and is not refused as a conflict.
C2_ShaChained ==
    /\ [](\A k \in TaskIds :
             (~overlapped["A"] /\ ~needRefetch["A"] /\ tasks["A"][k].pc = "putting")
                 => tasks["A"][k].sha = slot.sha)
    /\ [][\A k \in TaskIds :
             /\ SaveSucceeded("A", k) =>
                   /\ currentSHA'["A"] = tasks["A"][k].response.sha
                   /\ ~overlapped["A"] => currentSHA'["A"] = slot'.sha
             /\ (PutAnswered("A", k) /\ ~overlapped["A"] /\ ~needRefetch["A"]) =>
                   tasks'["A"][k].response.status \notin {"409", "422"}]_vars

\* The second of two saves made one after the other has succeeded.
C2_Witness ==
    /\ ~overlapped["A"]
    /\ ~needRefetch["A"]
    /\ \A k \in TaskIds : tasks["A"][k].pc = "idle"
    /\ message["A"] = SuccessMessage(SavedText)
    /\ slot.sha = Some(2)
    /\ currentSHA["A"] = Some(2)

\* C3: a session sends no PUT while a save of its has failed and no load of its has
\* succeeded since.
C3_RetryRefetches ==
    [][\A s \in Sessions, k \in TaskIds : PutIssued(s, k) => ~needRefetch[s]]_vars

\* C4: a session has at most one PUT in flight.
C4_OnePutInFlight ==
    \A s \in Sessions : \A j, k \in TaskIds :
        (tasks[s][j].pc = "putting" /\ tasks[s][k].pc = "putting") => j = k

\* C5: a save is under way in a session only after a fetch of that session has
\* completed successfully; so is every PUT.
C5_FetchBeforePut ==
    \A s \in Sessions, k \in TaskIds : tasks[s][k].pc \in SaveStages => fetchedOk[s]

\* A PUT is in flight.
C5_Witness == \E s \in Sessions, k \in TaskIds : tasks[s][k].pc = "putting" /\ fetchedOk[s]

\* C10: when a load ends: a slot not found has made the session active with an empty
\* document and no token and is reported as a success; a fetch that failed is reported
\* as a load error; a failed decryption of what was fetched is reported as a decryption
\* error; and the decryption error and the load error are shown in no other case.
C10_LoadOutcomes ==
    [][\A s \in Sessions, k \in TaskIds :
          LoadEnded(s, k) =>
              LET response == tasks[s][k].response
                  fetched == fetchEncryptedData(response)
              IN /\ response.status = "404" =>
                       /\ ~fetched.threw /\ IsNull(fetched.content) /\ IsNull(fetched.sha)
                       /\ message'[s] = SuccessMessage(WelcomeText)
                       /\ authenticated'[s]
                       /\ data'[s] = Some(createEmptyData)
                       /\ currentSHA'[s] = Null
                 /\ response.status \in {"network", "401"} =>
                       /\ message'[s].kind = "error"
                       /\ message'[s].text = LoadErrorText
                       /\ data'[s] = data[s]
                 /\ (response.status = "200"
                        /\ ~decrypt(Val(fetched.content), tasks[s][k].password).ok) =>
                       /\ message'[s] = ErrorMessage(DecryptErrorText, "")
                       /\ data'[s] = data[s]
                 /\ message'[s].text = DecryptErrorText => response.status = "200"
                 /\ message'[s].text = LoadErrorText =>
                       response.status \in {"network", "401"}]_vars

\* A load has ended in the decryption error: the slot holds a document sealed under
\* another password.
C10_Witness ==
    /\ message["A"] = ErrorMessage(DecryptErrorText, "")
    /\ ~IsNull(slot.content)
    /\ IsNull(password["A"])


\* The responses a PUT gets when it fails in transport: no response at all, or the
\* store's refusal of the access token.
TransportResponses ==
    {[NoResponse EXCEPT !.status = "network"]}
        \cup StoreAnswers([NoResponse EXCEPT !.status = "401"])

\* C11: the error commitEncryptedData throws for a PUT refused because its token is
\* stale is one it throws for no transport failure.
C11_ConflictDistinct ==
    \A s \in Sessions, k \in TaskIds :
        (tasks[s][k].pc = "putDone" /\ tasks[s][k].response.status \in {"409", "422"}) =>
            \A r \in TransportResponses :
                commitEncryptedData(tasks[s][k].response) # commitEncryptedData(r)


\* C12: a load that finds no slot makes the session active with the empty document and
\* no sha; a PUT sent while the session holds no sha names none; such a PUT, when it
\* reaches the still empty slot with a valid access token, creates the file and is
\* answered with a fresh token; and a save that succeeds stores the token returned.
C12_Bootstrap ==
    [][\A s \in Sessions, k \in TaskIds :
          /\ (LoadEnded(s, k) /\ tasks[s][k].response.status = "404") =>
                /\ authenticated'[s]
                /\ data'[s] = Some(createEmptyData)
                /\ currentSHA'[s] = Null
          /\ (PutIssued(s, k) /\ IsNull(currentSHA[s])) =>
                IsNull(CommitBody(Val(tasks'[s][k].encrypted), tasks'[s][k].sha).sha)
          /\ (PutAnswered(s, k) /\ IsNull(tasks[s][k].sha) /\ IsNull(slot.sha)
                 /\ tasks'[s][k].response.status \notin {"network", "401"}) =>
                /\ tasks'[s][k].response.status = "201"
                /\ ~IsNull(tasks'[s][k].response.sha)
                /\ tasks'[s][k].response.sha # slot.sha
                /\ slot'.sha = tasks'[s][k].response.sha
          /\ SaveSucceeded(s, k) => currentSHA'[s] = tasks[s][k].response.sha]_vars

\* The first save after a load of the empty slot has succeeded.
C12_Witness ==
    /\ revisions = 1
    /\ slot.sha = Some(1)
    /\ currentSHA["A"] = Some(1)
    /\ message["A"] = SuccessMessage(SavedText)
    /\ Len(Val(data["A"]).entries) = 1


\* The load of task k of session s ends in this step with decrypt having thrown.
LoadFailedToDecrypt(s, k) ==
    /\ LoadEnded(s, k)
    /\ tasks[s][k].response.status = "200"
    /\ ~decrypt(Val(fetchEncryptedData(tasks[s][k].response).content), tasks[s][k].password).ok

Contains(hay, needle) ==
    \E i \in 0..(Len(hay) - Len(needle)) : SubSeq(hay, i + 1, i + Len(needle)) = needle

\* What the PUT of task k of session s carries: the content member of its body, the
\* text that content encodes, and the bytes that text encodes.
PutContent(s, k) == CommitBody(Val(tasks[s][k].encrypted), tasks[s][k].sha).content

PutText(s, k) == atob(PutContent(s, k)).bytes

PutBytes(s, k) == atob(PutText(s, k)).bytes

\* C15: the content of every PUT sent is what encrypt returns for a document of the
\* session (the document in memory when the session's handlers run one after the
\* other) under the password saveData was called with; at no level of its encoding
\* does it contain the text of that document or the password.
C15_OnlySealedContent ==
    \A s \in Sessions, k \in TaskIds :
        tasks[s][k].pc = "putting" =>
            LET task == tasks[s][k]
                opened == decrypt(PutText(s, k), task.password)
                clear == JsonStringify(opened.value)
                secret == PasswordBytes(task.password)
            IN /\ opened.ok
               /\ opened.value.entries # <<>>
               /\ PutText(s, k) = encrypt(opened.value, task.password, task.salt, task.iv)
               /\ ~overlapped[s] =>
                     PutText(s, k) = encrypt(Val(data[s]), task.password, task.salt, task.iv)
               /\ \A sent \in {PutContent(s, k), PutText(s, k), PutBytes(s, k)} :
                     ~Contains(sent, clear) /\ ~Contains(sent, secret)

\* A PUT carrying a sealed document is in flight.
C15_Witness ==
    \E s \in Sessions, k \in TaskIds :
        /\ tasks[s][k].pc = "putting"
        /\ ~IsNull(tasks[s][k].password)
        /\ decrypt(PutText(s, k), tasks[s][k].password).ok


ValidRatings(ratings) ==
    /\ DOMAIN ratings = {RatingKeys[i] : i \in 1..Len(RatingKeys)}
    /\ \A key \in DOMAIN ratings : ratings[key] \in 0..10

\* C16: every entry of the document in memory has the nine rating keys, each with an
\* integer in 0..10.
C16_RatingsValid ==
    \A s \in Sessions :
        ~IsNull(data[s]) =>
            \A i \in 1..Len(Val(data[s]).entries) : ValidRatings(Val(data[s]).entries[i].ratings)


IsPrefix(a, b) == Len(a) <= Len(b) /\ SubSeq(b, 1, Len(a)) = a

\* C17: in every step, the entries of the document in memory stay as they are and in
\* their places; entries are only added after them.
C17_AppendOnly ==
    [][\A s \in Sessions :
          ~IsNull(data[s]) =>
              /\ ~IsNull(data'[s])
              /\ IsPrefix(Val(data[s]).entries, Val(data'[s]).entries)]_vars

\* A step in which a save ends on a PUT that failed or was refused.
SaveFailed(s, k) ==
    /\ tasks[s][k].pc = "putDone"
    /\ tasks'[s][k].pc = "idle"
    /\ tasks[s][k].response.status \notin {"200", "201"}

SlotOpened(s, k) == decrypt(Val(slot.content), tasks[s][k].password)

\* Every rating of every entry of the document is a number.
AllNumbers(document) ==
    \A i \in 1..Len(document.entries) :
        \A j \in 1..Len(RatingKeys) : document.entries[i].ratings[RatingKeys[j]] # NaN

PutCarriesNumbers ==
    [][\A s \in Sessions, k \in TaskIds :
          (SaveSucceeded(s, k) /\ ~overlapped[s] /\ AllNumbers(Val(data[s]))) =>
              /\ SlotOpened(s, k).ok
              /\ SlotOpened(s, k).value = Val(data[s])]_vars

\* handlePATSubmit of task k of session s ends in this step, testPAT having answered.
PatTestEnded(s, k) == tasks[s][k].pc = "testing" /\ tasks'[s][k].pc = "idle"

StoredText == "PAT validated and stored successfully!"

\* C20: the step in which testPAT answers changes neither the slot nor the document,
\* sha, password, authenticated flag or remembered preference of the page; the token in
\* localStorage and in App.state.pat changes only in such a step, for a token that has
\* access, to that token, with the success shown; for a token without access both stay
\* as they were and an error is shown; an empty input stores nothing.
C20_TestGatesStorage ==
    [][\A s \in Sessions :
          /\ (pat'[s] # pat[s] \/ localStorage'[s] # localStorage[s]
                  \/ (message'[s] = SuccessMessage(StoredText) /\ message[s] # message'[s])) =>
                \/ \E k \in TaskIds :
                      /\ PatTestEnded(s, k)
                      /\ Authorized(tasks[s][k].pat)
                      /\ pat'[s] = tasks[s][k].pat
                      /\ localStorage'[s] = [localStorage[s] EXCEPT !.github_pat = tasks[s][k].pat]
                      /\ message'[s] = SuccessMessage(StoredText)
                \/ /\ pat'[s] = pat[s]
                   /\ localStorage'[s] = [localStorage[s] EXCEPT !.remember_password = Some("true")]
                   /\ message'[s] = message[s]
          /\ \A k \in TaskIds :
                PatTestEnded(s, k) =>
                    /\ slot' = slot
                    /\ data'[s] = data[s]
                    /\ currentSHA'[s] = currentSHA[s]
                    /\ password'[s] = password[s]
                    /\ authenticated'[s] = authenticated[s]
                    /\ (~Authorized(tasks[s][k].pat) =>
                            /\ pat'[s] = pat[s]
                            /\ localStorage'[s] = localStorage[s]
                            /\ message'[s].kind = "error")]_vars

\* A new page has tested a token with access and stored it.
C20_Witness ==
    /\ localStorage["B"].github_pat = Null
    /\ localStorage["A"].github_pat = Some(ValidPAT)
    /\ pat["A"] = Some(ValidPAT)
    /\ message["A"] = SuccessMessage(StoredText)

(***************************************************************************)
(* Properties of the figures (SpecScore, SpecEntries).                     *)
(***************************************************************************)
\* The last thing computed was op.
Computed(op) == ~IsNull(wOut) /\ Val(wOut).op = op

AllEqual(ratings) == \A i \in 1..Len(RatingKeys) : ratings[RatingKeys[i]] = ratings[RatingKeys[1]]

\* C22: the balance score of nine whole ratings in 0..10 is between 0 and 10; it is 10
\* exactly when the nine are equal; all fives score 10, and alternating 0 and 10 scores
\* 5.0, which is less.
C22_BalanceScore ==
    Computed("getBalanceScore") =>
        /\ Val(wOut).value \in 0..100
        /\ Val(wOut).value = 100 <=> AllEqual(wRatings)
        /\ wRatings = Uniform(5) => Val(wOut).value = 100
        /\ wRatings = Ratings(0, 10, 0, 10, 0, 10, 0, 10, 0) => Val(wOut).value = 50

\* One rating at 0 and the rest at 10 has been scored: 6.9.
C22_Witness ==
    /\ Computed("getBalanceScore")
    /\ wRatings = Ratings(10, 10, 10, 10, 0, 10, 10, 10, 10)
    /\ Val(wOut).value = 69

\* The sum of the three ratings the spec assigns to a category.
CategorySum(ratings, category) ==
    CASE category = "health" -> ratings.body + ratings.mind + ratings.soul
      [] category = "relationships" -> ratings.friends + ratings.romance + ratings.family
      [] category = "work" -> ratings.mission + ratings.money + ratings.growth

\* C23: the average of a category is the sum of its own three ratings over 3, whatever
\* the other six are; with body, mind and soul at 10 and the rest at 0, health is 10
\* and work is 0.
C23_CategoryAverage ==
    Computed("getCategoryAverage") =>
        /\ Val(wOut).value.den = 3
        /\ Val(wOut).value.num = CategorySum(wRatings, Val(wOut).category)
        /\ wRatings = Ratings(10, 10, 10, 0, 0, 0, 0, 0, 0) =>
              Val(wOut).value.num = (IF Val(wOut).category = "health" THEN 30 ELSE 0)

\* Health has been averaged for body, mind and soul at 10 and the rest at 0: 30 / 3.
C23_Witness ==
    /\ Computed("getCategoryAverage")
    /\ wRatings = Ratings(10, 10, 10, 0, 0, 0, 0, 0, 0)
    /\ Val(wOut).category = "health"
    /\ Val(wOut).value = [num |-> 30, den |-> 3]

\* The items of a list of changes that name key.
ItemsOf(items, key) == {i \in 1..Len(items) : items[i].key = key}

\* C25: for every key, with n the current rating less the previous one: the key is
\* listed once under improved, as +n, exactly when n > 0; once under declined, as n,
\* exactly when n < 0; under neither when n = 0; and hasChanges says whether any key
\* differs.
C25_Changes ==
    Computed("calculateChanges") =>
        LET previous == Val(wOut).previous
            changes == Val(wOut).value
        IN /\ \A j \in 1..Len(RatingKeys) :
                 LET key == RatingKeys[j]
                     n == wRatings[key] - previous[key]
                 IN /\ Cardinality(ItemsOf(changes.improved, key)) = (IF n > 0 THEN 1 ELSE 0)
                    /\ Cardinality(ItemsOf(changes.declined, key)) = (IF n < 0 THEN 1 ELSE 0)
                    /\ \A i \in ItemsOf(changes.improved, key) :
                          changes.improved[i].plus /\ changes.improved[i].diff = n
                    /\ \A i \in ItemsOf(changes.declined, key) :
                          ~changes.declined[i].plus /\ changes.declined[i].diff = n
           /\ changes.hasChanges <=> wRatings # previous

\* Changes have been computed between rating sets of which some keys rose, some fell
\* and some stayed.
C25_Witness ==
    /\ Computed("calculateChanges")
    /\ Val(wOut).value.improved # <<>>
    /\ Val(wOut).value.declined # <<>>
    /\ Len(Val(wOut).value.improved) + Len(Val(wOut).value.declined) < Len(RatingKeys)

\* The timestamps of a sequence of entries never fall from one to the next.
InTimeOrder(entries) ==
    \A i \in 1..(Len(entries) - 1) : entries[i].timestamp <= entries[i + 1].timestamp

\* C21: whatever the order of the entries in the document: the entry a row of the
\* history takes its changes from is the one shown with the next smaller timestamp (no
\* entry shown lies between the two in time), and the row without one is the earliest
\* shown; the entry the dashboard draws has the greatest timestamp; the trend runs in
\* the order of the timestamps.
C21_OrderedByTimestamp ==
    /\ Computed("renderHistory") =>
          LET rows == Val(wOut).value
          IN \A i \in 1..Len(rows) :
                IF IsNull(rows[i].prevEntry)
                THEN \A j \in 1..Len(rows) : rows[j].entry.timestamp >= rows[i].entry.timestamp
                ELSE /\ Val(rows[i].prevEntry).timestamp <= rows[i].entry.timestamp
                     /\ \A j \in 1..Len(rows) :
                           ~(/\ Val(rows[i].prevEntry).timestamp < rows[j].entry.timestamp
                             /\ rows[j].entry.timestamp < rows[i].entry.timestamp)
    /\ Computed("renderDashboard") =>
          \A i \in 1..Len(wEntries) :
              Val(Val(wOut).value.latestEntry).timestamp >= wEntries[i].timestamp
    /\ Computed("renderCategoryAveragesTrend") =>
          \A i \in 1..(Len(Val(Val(wOut).value).labels) - 1) :
              Val(Val(wOut).value).labels[i] <= Val(Val(wOut).value).labels[i + 1]

\* The same for documents whose entries are stored in the order of their timestamps.
OrderedWhenStoredInOrder == InTimeOrder(wEntries) => C21_OrderedByTimestamp

\* The places of the entries made at or after now less days; of all entries when days
\* is absent.
Window(entries, days, now) ==
    {i \in 1..Len(entries) : IsNull(days) \/ entries[i].timestamp >= now - Val(days) * DayLength}

\* The sum of the ratings under key of the entries at the places given.
RECURSIVE KeySum(_, _, _)
KeySum(entries, places, key) ==
    IF places = {} THEN 0
    ELSE LET i == CHOOSE j \in places : TRUE
         IN entries[i].ratings[key] + KeySum(entries, places \ {i}, key)

\* calculateAverages answered 'no data' exactly when the window is empty.
NullWhenWindowEmpty ==
    LET out == Val(wOut)
    IN IsNull(out.value) <=> Window(wEntries, out.days, out.now) = {}

\* C24 as stated: calculateAverages returns null exactly when no entry lies in the
\* window, and otherwise, for each key, the mean of that key over the entries in the
\* window.
C24_ExactMeans ==
    Computed("calculateAverages") =>
        LET out == Val(wOut)
            window == Window(wEntries, out.days, out.now)
        IN /\ NullWhenWindowEmpty
           /\ ~IsNull(out.value) =>
                 \A i \in 1..Len(RatingKeys) :
                     Val(out.value)[RatingKeys[i]] * Cardinality(window)
                         = 10 * KeySum(wEntries, window, RatingKeys[i])

\* C24 amended: ..., for each key, the mean of that key over the entries in the window
\* rounded to one decimal, a half rounded up.
C24_RoundedMeans ==
    Computed("calculateAverages") =>
        LET out == Val(wOut)
            window == Window(wEntries, out.days, out.now)
        IN /\ NullWhenWindowEmpty
           /\ ~IsNull(out.value) =>
                 \A i \in 1..Len(RatingKeys) :
                     LET tenths == Val(out.value)[RatingKeys[i]]
                         total == KeySum(wEntries, window, RatingKeys[i])
                     IN /\ (2 * tenths - 1) * Cardinality(window) <= 20 * total
                        /\ 20 * total < (2 * tenths + 1) * Cardinality(window)

\* Averages have been computed over a window that takes in an entry made at the cutoff
\* itself and leaves an earlier one out.
C24_Witness ==
    /\ Computed("calculateAverages")
    /\ ~IsNull(Val(wOut).days)
    /\ ~IsNull(Val(wOut).value)
    /\ Cardinality(Window(wEntries, Val(wOut).days, Val(wOut).now)) < Len(wEntries)
    /\ \E i \in 1..Len(wEntries) :
          wEntries[i].timestamp = Val(wOut).now - Val(Val(wOut).days) * DayLength
    /\ Val(Val(wOut).value).body = 55

\* The places of the entries whose timestamp is within the bounds; an absent bound
\* bounds nothing.
InRange(entries, startDate, endDate) ==
    {i \in 1..Len(entries) :
        /\ IsNull(startDate) \/ Val(startDate) <= entries[i].timestamp
        /\ IsNull(endDate) \/ entries[i].timestamp <= Val(endDate)}

\* The j-th smallest of a set of places.
Nth(places, j) == CHOOSE i \in places : Cardinality({k \in places : k <= i}) = j

\* C26: filterByDateRange returns the entries whose timestamp t has start <= t <= end,
\* each once and in the order they had, an absent bound bounding nothing; with both
\* bounds absent it returns the entries as they are.
C26_FilterInclusive ==
    Computed("filterByDateRange") =>
        LET out == Val(wOut)
            kept == InRange(wEntries, out.startDate, out.endDate)
        IN /\ Len(out.value) = Cardinality(kept)
           /\ \A j \in 1..Len(out.value) : out.value[j] = wEntries[Nth(kept, j)]
           /\ (IsNull(out.startDate) /\ IsNull(out.endDate)) => out.value = wEntries

\* A range has been applied that keeps an entry on each of its bounds and drops one.
C26_Witness ==
    /\ Computed("filterByDateRange")
    /\ ~IsNull(Val(wOut).startDate)
    /\ ~IsNull(Val(wOut).endDate)
    /\ Val(Val(wOut).startDate) < Val(Val(wOut).endDate)
    /\ Len(Val(wOut).value) = 2
    /\ Len(wEntries) = 3
    /\ Val(wOut).value[1].timestamp = Val(Val(wOut).endDate)
    /\ Val(wOut).value[2].timestamp = Val(Val(wOut).startDate)

\* C27: no password of fewer than 8 characters becomes App.state.password or is given
\* to a load; the step that shows 'Password must be at least 8 characters long' starts
\* no fetch and leaves the password, the document, the sha, the authenticated flag and
\* localStorage of the page as they were.
C27_ShortPasswordRejected ==
    [][\A s \in Sessions :
          /\ (password'[s] # password[s] /\ ~IsNull(password'[s])) =>
                Len(Val(password'[s])) >= 8
          /\ \A k \in TaskIds :
                (tasks'[s][k].pc = "fetching" /\ tasks[s][k].pc # "fetching") =>
                    Len(Val(tasks'[s][k].password)) >= 8
          /\ (message'[s] = ErrorMessage(PasswordTooShort, "") /\ message[s] # message'[s]) =>
                /\ tasks'[s] = tasks[s]
                /\ password'[s] = password[s]
                /\ data'[s] = data[s]
                /\ currentSHA'[s] = currentSHA[s]
                /\ authenticated'[s] = authenticated[s]
                /\ localStorage'[s] = localStorage[s]]_vars

\* A page that is loaded has had a short password refused: it is as it was.
C27_Witness ==
    /\ message["A"] = ErrorMessage(PasswordTooShort, "")
    /\ authenticated["A"]
    /\ password["A"] = Some(<<8, 7, 6, 5, 4, 3, 2, 1>>)
    /\ ~IsNull(data["A"])
    /\ \A k \in TaskIds : tasks["A"][k].pc = "idle"

(***************************************************************************)
(* More properties of the codec (SpecCodec).                               *)
(***************************************************************************)
\* The bytes of the envelope at hand.
EnvelopeBytes == base64ToArrayBuffer(Val(cEnvelope)).bytes

\* C29: in an envelope encrypt has returned for a plaintext of n bytes there are
\* 28 + n + 16 bytes; bytes 0..15 are a salt encrypt drew and bytes 16..27 an iv it
\* drew; and the rest is what AES-GCM gives for the plaintext under that iv and the key
\* derived from the password and that salt, so the key decrypt derives from the salt it
\* reads is the key the envelope was sealed with.
C29_EnvelopeLayout ==
    cCause = "sealed" =>
        LET plaintext == JsonStringify(cData)
            salt == ExtractSalt(EnvelopeBytes)
            iv == ExtractIv(EnvelopeBytes)
        IN /\ Len(EnvelopeBytes) = 28 + Len(plaintext) + 16
           /\ salt = SubSeq(EnvelopeBytes, 1, 16)
           /\ iv = SubSeq(EnvelopeBytes, 17, 28)
           /\ salt \in Salts
           /\ iv \in Ivs
           /\ ExtractEncrypted(EnvelopeBytes)
                  = SubtleEncrypt(deriveKey(cPassword, salt), iv, plaintext)

\* A document of one entry, 14 bytes of text, has been sealed: 58 bytes.
C29_Witness ==
    /\ cCause = "sealed"
    /\ ~Decrypted
    /\ Len(cData.entries) = 1
    /\ Len(EnvelopeBytes) = 58

(***************************************************************************)
(* Properties of the session as a whole (Spec, SpecSolo).                  *)
(***************************************************************************)
\* C31: in every reachable state, whatever the order in which the handlers ran and
\* resumed, a session whose authenticated flag is true has a token, a password and a
\* document: none of App.state.pat, App.state.password and App.state.data is null.
C31_AuthenticatedHasSecrets ==
    \A s \in Sessions :
        authenticated[s] =>
            /\ ~IsNull(pat[s])
            /\ ~IsNull(password[s])
            /\ ~IsNull(data[s])

\* The part of it the handlers do keep: an authenticated session has a token and a
\* document.
AuthenticatedHasTokenAndDocument ==
    \A s \in Sessions : authenticated[s] => ~IsNull(pat[s]) /\ ~IsNull(data[s])

\* A session that is active without a password, the load that made it active having
\* ended last.
ActiveWithoutPassword ==
    \E s \in Sessions :
        /\ authenticated[s]
        /\ IsNull(password[s])
        /\ message[s] = SuccessMessage(LoadedText)

\* The load of task k of session s ends in this step with the document decrypt returned.
LoadedByDecryption(s, k) ==
    /\ LoadEnded(s, k)
    /\ tasks[s][k].response.status = "200"
    /\ decrypt(Val(fetchEncryptedData(tasks[s][k].response).content), tasks[s][k].password).ok

\* C32: when a load makes the session active with the document it decrypted,
\* App.state.password is the password that decrypted it, also when another password
\* was submitted while that load was fetching or decrypting; so a save that starts in
\* the state the load leaves seals under a password that opens what the slot holds.
C32_PasswordDecryptedDocument ==
    [][\A s \in Sessions, k \in TaskIds :
          LoadedByDecryption(s, k) =>
              /\ authenticated'[s]
              /\ password'[s] = tasks[s][k].password
              /\ decrypt(Val(fetchEncryptedData(tasks[s][k].response).content), password'[s]).ok]_vars

\* A session made active by a load that decrypted the slot's document, and holding
\* another password, one that does not open it.
ActiveUnderOtherPassword ==
    \E s \in Sessions :
        /\ authenticated[s]
        /\ message[s] = SuccessMessage(LoadedText)
        /\ currentSHA[s] = slot.sha
        /\ ~IsNull(password[s])
        /\ ~decrypt(Val(slot.content), password[s]).ok

\* The document a save has sealed: what decrypt makes of its envelope with the
\* password saveData gave to encrypt.
Sealed(task) == decrypt(Val(task.encrypted), task.password).value

\* Task k of session s serialises and seals the document in this step.
SaveSealed(s, k) == tasks[s][k].pc = "deriving" /\ tasks'[s][k].pc = "encrypting"

\* C33: while a session stays active no entry is lost.  Every step leaves the entries
\* in memory in place and only adds after them; a save seals all the entries in memory,
\* so those whose own save failed as well; and the entries of a document whose save
\* has succeeded are a prefix of the entries in memory.
C33_NoEntryLost ==
    [][\A s \in Sessions :
          /\ (authenticated[s] /\ authenticated'[s]) =>
                IsPrefix(Val(data[s]).entries, Val(data'[s]).entries)
          /\ \A k \in TaskIds :
                /\ (authenticated[s] /\ SaveSealed(s, k)) =>
                      Sealed(tasks'[s][k]).entries = Val(data[s]).entries
                /\ (authenticated[s] /\ SaveSucceeded(s, k)) =>
                      IsPrefix(Sealed(tasks[s][k]).entries, Val(data'[s]).entries)]_vars

\* The same between the loads of a session, for documents whose ratings are all
\* numbers: no step but the end of a load removes an entry from memory, and a save
\* that began after the last load seals the entries in memory.
NoEntryLostBetweenLoads ==
    [][\A s \in Sessions :
          /\ (authenticated[s] /\ authenticated'[s]
                 /\ \A k \in TaskIds : ~LoadEnded(s, k)) =>
                IsPrefix(Val(data[s]).entries, Val(data'[s]).entries)
          /\ \A k \in TaskIds :
                (authenticated[s] /\ SaveSealed(s, k) /\ IsNull(tasks[s][k].frozen)
                     /\ AllNumbers(Val(data[s]))) =>
                      Sealed(tasks'[s][k]).entries = Val(data[s]).entries]_vars

(***************************************************************************)
(* Properties of a session beside another writer (SpecRival).              *)
(***************************************************************************)
\* The tokens session s holds: currentSHA, the token of each PUT on its way, and the
\* token in each response a handler of s is about to read.
Held(s) ==
    {currentSHA[s]}
        \cup {tasks[s][k].sha : k \in {j \in TaskIds : tasks[s][j].pc = "putting"}}
        \cup {tasks[s][k].response.sha :
                 k \in {j \in TaskIds : tasks[s][j].pc \in {"fetched", "putDone"}}}

\* Session s is behind: the slot's token is none of those it holds.
Behind(s) == slot.sha \notin Held(s)

\* The store answers the GET of task k of session s in this step.
FetchAnswered(s, k) == tasks[s][k].pc = "fetching" /\ tasks'[s][k].pc = "fetched"

\* The load of task k of session s ends in this step and has set a document.
LoadSucceeded(s, k) ==
    /\ LoadEnded(s, k)
    /\ \/ tasks[s][k].response.status = "404"
       \/ LoadedByDecryption(s, k)

\* C34: currentSHA changes only when a save ends having committed or a load ends
\* having set a document.  While the session is behind, the slot having been changed
\* by another writer, every PUT of the session that is answered is refused, the slot
\* keeping its content and the save ending in an error; the session stops being
\* behind only when a GET of a password submission is answered; and the load that
\* then ends sets App.state.data to the document decrypted from what it fetched and
\* currentSHA to the token it fetched.
C34_StaleUntilReload ==
    [][\A s \in Sessions :
          /\ currentSHA'[s] # currentSHA[s] =>
                \E k \in TaskIds : SaveSucceeded(s, k) \/ LoadSucceeded(s, k)
          /\ (Behind(s) /\ ~Behind(s)') => \E k \in TaskIds : FetchAnswered(s, k)
          /\ \A k \in TaskIds :
                /\ (Behind(s) /\ PutAnswered(s, k)) =>
                      /\ slot' = slot
                      /\ commitEncryptedData(tasks'[s][k].response).threw
                      /\ Behind(s)'
                /\ (Behind(s) /\ SaveFailed(s, k)) =>
                      /\ currentSHA'[s] = currentSHA[s]
                      /\ Behind(s)'
                /\ LoadedByDecryption(s, k) =>
                      LET fetched == fetchEncryptedData(tasks[s][k].response)
                      IN /\ data'[s] = Some(decrypt(Val(fetched.content),
                                                    tasks[s][k].password).value)
                         /\ currentSHA'[s] = fetched.sha]_vars

\* The other writer has changed the slot since the session saved; a save of the
\* session has been refused for its token and has ended in the error, and the PUT of
\* a second save, begun after that, has been refused as well.
C34_Witness ==
    /\ Behind("A")
    /\ slot.sha = Some(2)
    /\ currentSHA["A"] = Some(1)
    /\ ~overlapped["A"]
    /\ message["A"].text = SaveErrorText
    /\ message["A"].detail \in {ApiErrorText(r) : r \in StoreReasons}
    /\ Len(Val(data["A"]).entries) = 3
    /\ \E k \in TaskIds :
          /\ tasks["A"][k].pc = "putDone"
          /\ tasks["A"][k].response.status = "409"
          /\ tasks["A"][k].sha = Some(1)

\* The session has loaded again after a refused save and holds the slot's token and
\* the other writer's document.
ReloadedAfterRefusal ==
    /\ slot.sha = Some(2)
    /\ currentSHA["A"] = Some(2)
    /\ needRefetch["A"] = FALSE
    /\ started = MaxStarted
    /\ message["A"] = SuccessMessage(LoadedText)
    /\ data["A"] \in {Some(document) : document \in OtherDocuments}

(***************************************************************************)
(* Properties of logout (SpecSolo).                                        *)
(***************************************************************************)
\* A step in which a handler ran to its end at once, showing nothing and suspending
\* nothing: a logout that was confirmed.
LoggedOut == started' # started /\ tasks' = tasks /\ message' = message

\* C35: a confirmed logout leaves the session not authenticated and without a password,
\* and changes nothing else: App.state.pat, the token in localStorage, App.state.data
\* and App.state.currentSHA, and the slot, are as before, so the decrypted document
\* stays in memory.  (A declined confirmation is no step at all.)
C35_LogoutFrame ==
    [][LoggedOut =>
          \E s \in Sessions :
              /\ authenticated' = [authenticated EXCEPT ![s] = FALSE]
              /\ password' = [password EXCEPT ![s] = Null]
              /\ pat' = pat
              /\ localStorage' = localStorage
              /\ data' = data
              /\ currentSHA' = currentSHA
              /\ slot' = slot]_vars

\* A session that has saved an entry has logged out: the token, the document with its
\* entry and the sha are still in memory.
C35_Witness ==
    /\ ~authenticated["A"]
    /\ IsNull(password["A"])
    /\ pat["A"] = Some(ValidPAT)
    /\ localStorage["A"].github_pat = Some(ValidPAT)
    /\ ~IsNull(data["A"])
    /\ Len(Val(data["A"]).entries) = 1
    /\ currentSHA["A"] = Some(1)
    /\ message["A"] = SuccessMessage(SavedText)
    /\ \A k \in TaskIds : tasks["A"][k].pc = "idle"

====
